---- MODULE Spec2Model ----
(***************************************************************************)
(* RayCaster (src/examples/raycaster/raycaster/raycaster.py): the DDA grid *)
(* caster (cast_ray) and the frame loop (render) as a state machine.       *)
(*                                                                         *)
(* Floating-point values are extended rationals <<n, d>>: d > 0 is a       *)
(* finite value in lowest terms, <<1, 0>> and <<-1, 0>> are the            *)
(* infinities and <<0, 0>> is NaN.  The camera inputs of the model are     *)
(* dyadic, so every entry of the float16 tables is exact.                  *)
(***************************************************************************)
EXTENDS Integers, Sequences, FiniteSets, TLC

----------------------------------------------------------------------------
(* Floating-point arithmetic (IEEE special cases included).                *)

Abs(i) == IF i < 0 THEN -i ELSE i

Sgn(i) == IF i > 0 THEN 1 ELSE IF i < 0 THEN -1 ELSE 0

RECURSIVE Gcd(_, _)
Gcd(a, b) == IF b = 0 THEN a ELSE Gcd(b, a % b)

Norm(n, d) ==
    IF d = 0 THEN <<Sgn(n), 0>>
    ELSE IF n = 0 THEN <<0, 1>>
    ELSE LET g == Gcd(Abs(n), Abs(d))
         IN  <<(Sgn(d) * n) \div g, Abs(d) \div g>>

NaN == <<0, 0>>
PosInf == <<1, 0>>
Zero == <<0, 1>>
One == <<1, 1>>
R(n, d) == Norm(n, d)
I(n) == <<n, 1>>

IsNaN(a) == a[2] = 0 /\ a[1] = 0
IsInf(a) == a[2] = 0 /\ a[1] # 0
IsFinite(a) == a[2] # 0

FNeg(a) == <<-a[1], a[2]>>

FAdd(a, b) ==
    IF IsNaN(a) \/ IsNaN(b) THEN NaN
    ELSE IF IsInf(a) /\ IsInf(b) THEN (IF a[1] = b[1] THEN a ELSE NaN)
    ELSE IF IsInf(a) THEN a
    ELSE IF IsInf(b) THEN b
    ELSE LET g == Gcd(a[2], b[2])
         IN  Norm(a[1] * (b[2] \div g) + b[1] * (a[2] \div g),
                  (a[2] \div g) * b[2])

FSub(a, b) == FAdd(a, FNeg(b))

\* The product of two finite values in lowest terms, in lowest terms.
Product(a, b) ==
    LET g == Gcd(Abs(a[1]), b[2])
        h == Gcd(Abs(b[1]), a[2])
    IN  <<(a[1] \div g) * (b[1] \div h), (a[2] \div h) * (b[2] \div g)>>

FMul(a, b) ==
    IF IsNaN(a) \/ IsNaN(b) THEN NaN
    ELSE IF IsInf(a) \/ IsInf(b)
         THEN (IF a[1] = 0 \/ b[1] = 0 THEN NaN ELSE <<Sgn(a[1]) * Sgn(b[1]), 0>>)
    ELSE Product(a, b)

\* numpy true division: x / 0 is an infinity, 0 / 0 and inf / inf are NaN.
FDiv(a, b) ==
    IF IsNaN(a) \/ IsNaN(b) THEN NaN
    ELSE IF IsInf(a) THEN (IF IsInf(b) THEN NaN
                           ELSE <<a[1] * (IF b[1] < 0 THEN -1 ELSE 1), 0>>)
    ELSE IF IsInf(b) THEN Zero
    ELSE IF b[1] = 0 THEN <<Sgn(a[1]), 0>>
    ELSE Product(a, <<Sgn(b[1]) * b[2], Abs(b[1])>>)

FAbs(a) == <<Abs(a[1]), a[2]>>

\* a < b; every comparison with NaN is false.
FLt(a, b) ==
    IF IsNaN(a) \/ IsNaN(b) THEN FALSE
    ELSE IF IsInf(a) THEN a[1] < 0 /\ ~(IsInf(b) /\ b[1] < 0)
    ELSE IF IsInf(b) THEN b[1] > 0
    ELSE LET g == Gcd(a[2], b[2])
         IN  a[1] * (b[2] \div g) < b[1] * (a[2] \div g)

FSign(a) == Sgn(a[1])

\* floor of a finite value.
FFloor(a) == IF a[2] = 0 THEN 0 ELSE a[1] \div a[2]

\* int(x) and astype(int): truncation toward zero of a finite value.
FTrunc(a) == IF a[2] = 0 THEN 0
             ELSE IF a[1] >= 0 THEN a[1] \div a[2] ELSE -((-a[1]) \div a[2])

\* x % 1 of a finite value: the fractional part, in [0, 1).
FMod1(a) == IF a[2] = 0 THEN NaN ELSE Norm(a[1] % a[2], a[2])

----------------------------------------------------------------------------
(* Bounds of the model and program constants.                              *)

HOPS == 20
Sentinel == 1000
MaxWidth == 3
MaxRows == 2
TexH == 3
TexW == 4
MaxFrames == 2
RingRows == 5
RingCols == 4
PillarSize == 3
MaxDist == 6
BigRows == 501
MaxMoves == 1
MaxToggles == 3
PlaneSize == 8
CorridorCols == 8
PlaneRows == 3
MaxSide == 3
ParWidth == 2

Axes == {0, 1}
Vec(y, x) == [a \in Axes |-> IF a = 0 THEN y ELSE x]
Min(a, b) == IF a < b THEN a ELSE b

VARIABLES map, camera, ceiling, floor, dim, colors, widget_colors,
          ray_angles, distances_table, rotated_angles, deltas, steps, sides,
          pos_int, pc, cpc, hops, side, texture_index, casts, frames, last,
          overlapped, strip, toggle, recast

\* What the constructor and resize set; strip belongs to the specification
\* of the wall strip alone (SpecStrip) and toggle to that of the FlatToggle
\* gadget (SpecToggle): no action of the renderer reads them. recast is
\* what a host that calls cast_ray itself keeps of a column's first cast.
config == <<map, ceiling, floor, dim, ray_angles, distances_table, strip,
            toggle, recast>>
\* What render computes before the columns are cast.
tables == <<rotated_angles, deltas, steps>>

vars == <<map, camera, ceiling, floor, dim, colors, widget_colors,
          ray_angles, distances_table, rotated_angles, deltas, steps, sides,
          pos_int, pc, cpc, hops, side, texture_index, casts, frames, last,
          overlapped, strip, toggle, recast>>

----------------------------------------------------------------------------
(* Maps, textures and pixels.                                              *)

\* Open interior with a bounding ring of walls of texture 1.
RingMap(rows, cols) ==
    [rows |-> rows, cols |-> cols,
     cells |-> [rc \in (0..rows - 1) \X (0..cols - 1) |->
        IF rc[1] \in {0, rows - 1} \/ rc[2] \in {0, cols - 1} THEN 1 ELSE 0]]

\* Open world without a ring, with the single wall cell (1, 1).
PillarMap(rows, cols) ==
    [rows |-> rows, cols |-> cols,
     cells |-> [rc \in (0..rows - 1) \X (0..cols - 1) |->
        IF rc = <<1, 1>> THEN 1 ELSE 0]]

InGrid(m, p) ==
    /\ 0 <= p[0] /\ p[0] < m.rows
    /\ 0 <= p[1] /\ p[1] < m.cols

\* numpy integer indexing of one axis of length n: a negative index counts
\* from the end, anything outside [-n, n) raises IndexError (-1 here).
NpIndex(i, n) == IF 0 <= i /\ i < n THEN i
                 ELSE IF -n <= i /\ i < 0 THEN i + n
                 ELSE -1

\* map[tuple(ray_pos)]; -1 stands for IndexError.
MapRead(m, p) ==
    LET r == NpIndex(p[0], m.rows)
        c == NpIndex(p[1], m.cols)
    IN  IF r = -1 \/ c = -1 THEN -1 ELSE m.cells[<<r, c>>]

\* A texture is its shape; texel (y, x) of it is a pixel naming y and x.
NoTexture == [h |-> 0, w |-> 0]
Texture(h, w) == [h |-> h, w |-> w]

Pixel(k, t, y, x, d, light) ==
    [k |-> k, t |-> t, y |-> y, x |-> x, d |-> d, light |-> light]
ZeroPixel == Pixel("zero", 0, 0, 0, Zero, FALSE)
CeilingColor == Pixel("ceiling_color", 0, 0, 0, Zero, FALSE)
FloorColor == Pixel("floor_color", 0, 0, 0, Zero, FALSE)
DefaultColor == Pixel("default_color", 0, 0, 0, Zero, FALSE)

----------------------------------------------------------------------------
(* resize: the per-size tables.                                            *)

\* np.linspace(-1, 1, width)[i]
Linspace(i, width) ==
    IF width = 1 THEN I(-1) ELSE FAdd(I(-1), R(2 * i, width - 1))

\* angles = np.ones((width, 2)); angles[:, 1] = np.linspace(-1, 1, width)
RayAngles(width) == [c \in 0..width - 1 |-> Vec(One, Linspace(c, width))]

\* height / np.linspace(.001, height, num=height, endpoint=False)
Distances(height) ==
    [i \in 0..height - 1 |->
        FDiv(I(height),
             FAdd(R(1, 1000),
                  FMul(I(i), FDiv(FSub(I(height), R(1, 1000)), I(height)))))]

----------------------------------------------------------------------------
(* render, lines 259-271: the per-frame tables.                            *)

\* np.dot(self._ray_angles, camera.plane)
Rotated(angles, plane) ==
    [c \in DOMAIN angles |->
        [a \in Axes |-> FAdd(FMul(angles[c][0], plane[0][a]),
                             FMul(angles[c][1], plane[1][a]))]]

\* |1.0 / rotated_angles|, a zero component giving inf
Deltas(rotated) ==
    [c \in DOMAIN rotated |-> [a \in Axes |-> FAbs(FDiv(One, rotated[c][a]))]]

\* np.sign(rotated_angles) as int16
Steps(rotated) ==
    [c \in DOMAIN rotated |-> [a \in Axes |-> FSign(rotated[c][a])]]

\* np.heaviside(x, 1.0): 0 below zero, 1.0 at zero, 1 above
Heaviside(x) == IF x < 0 THEN Zero ELSE One

\* The side distances left by the frame before, not computed again.
SidesKept(stp, dlt, pos) == sides

\* heaviside(steps) - pos % 1, times steps, times deltas
Sides(stp, dlt, pos) ==
    [c \in DOMAIN stp |->
        [a \in Axes |->
            FMul(FMul(FSub(Heaviside(stp[c][a]), FMod1(pos[a])), I(stp[c][a])),
                 dlt[c][a])]]

\* render, lines 234-241: the flat colours written before the columns are
\* cast; height is the visible row count, half the height of the buffer.
Primed(buf, height, ceil, flr) ==
    [rc \in DOMAIN buf |->
        IF ceil = NoTexture /\ flr = NoTexture
        THEN (IF rc[1] < height THEN CeilingColor ELSE FloorColor)
        ELSE IF ceil = NoTexture
        THEN (IF rc[1] < height THEN CeilingColor ELSE buf[rc])
        ELSE IF flr = NoTexture
        THEN (IF rc[1] < height THEN buf[rc] ELSE FloorColor)
        ELSE buf[rc]]

----------------------------------------------------------------------------
(* cast_ray, lines 126-181: distance, wall strip and texture sampling.     *)

\* The distance without the correction for the face of the cell hit.
DistanceNoCorrection(rp, pos, stp, angle, sd) ==
    FDiv(FSub(I(rp[sd]), pos[sd]), angle[sd])

\* (ray_pos[side] - camera_pos[side] + (0 if step[side] == 1 else 1))
\*     / ray_angle[side]
Distance(rp, pos, stp, angle, sd) ==
    FDiv(FAdd(FSub(I(rp[sd]), pos[sd]), I(IF stp[sd] = 1 THEN 0 ELSE 1)),
         angle[sd])

\* A column height that grows with the distance.
ColumnHeightGrowing(height, distance) ==
    IF distance # Zero THEN FTrunc(FMul(I(height), distance)) ELSE Sentinel

\* int(height / distance) if distance else 1000
ColumnHeight(height, distance) ==
    IF distance # Zero THEN FTrunc(FDiv(I(height), distance)) ELSE Sentinel

\* Half the column height, not clamped to half the buffer.
HalfColumnUnclamped(height, column_height) == column_height \div 2

HalfColumn(height, column_height) ==
    Min(column_height \div 2, height \div 2)

StripStart(height, column_height) ==
    height \div 2 - HalfColumn(height, column_height)

StripEnd(height, column_height) ==
    height \div 2 + HalfColumn(height, column_height)

\* The texture rows sampled from row 0 of the texture, a row of the
\* texture per tex_h / column_height rows of the strip.
TexYsFromTop(tex_h, column_height, drawn_height) ==
    [i \in 0..drawn_height - 1 |-> FFloor(FMul(I(i), R(tex_h, column_height)))]

\* np.linspace(texture_start, texture_end, num=drawn_height, endpoint=False,
\* dtype=int); column_height is not 0 here.
TexYs(tex_h, column_height, drawn_height) ==
    LET offset == R(column_height - drawn_height, 2)
        ratio == R(tex_h, column_height)
        texture_start == FMul(offset, ratio)
        texture_end == FMul(FAdd(offset, I(drawn_height)), ratio)
        step == FDiv(FSub(texture_end, texture_start), I(drawn_height))
    IN  [i \in 0..drawn_height - 1 |->
            FFloor(FAdd(FMul(I(i), step), texture_start))]

\* offset * ratio, lines 169-171
TextureStart(tex_h, column_height, drawn_height) ==
    FMul(R(column_height - drawn_height, 2), R(tex_h, column_height))

\* (offset + drawn_height) * ratio, line 172
TextureEnd(tex_h, column_height, drawn_height) ==
    FMul(FAdd(R(column_height - drawn_height, 2), I(drawn_height)),
         R(tex_h, column_height))

\* (camera_pos[1 - side] + distance * ray_angle[1 - side]) % 1
WallX(pos, distance, angle, sd) ==
    FMod1(FAdd(pos[1 - sd], FMul(distance, angle[1 - sd])))

\* The texture column without the sign correction.
TexXNoFlip(wall_x, tex_w, angle, sd) == FTrunc(FMul(wall_x, I(tex_w)))

\* int(wall_x * tex_w), mirrored by the sign correction
TexX(wall_x, tex_w, angle, sd) ==
    LET tex_x == FTrunc(FMul(wall_x, I(tex_w)))
    IN  IF FLt(FMul(I(IF sd = 1 THEN -1 ELSE 1), angle[sd]), Zero)
        THEN tex_w - tex_x - 1
        ELSE tex_x

----------------------------------------------------------------------------
(* cast_ray, lines 199-228: floor and ceiling projection.                  *)

FloorY(rp, angle, wall_x, sd) ==
    IF sd = 0 THEN FAdd(I(rp[0]), IF FLt(angle[0], Zero) THEN One ELSE Zero)
    ELSE FAdd(I(rp[0]), wall_x)

FloorX(rp, angle, wall_x, sd) ==
    IF sd = 0 THEN FAdd(I(rp[1]), wall_x)
    ELSE FAdd(I(rp[1]), IF FLt(angle[1], Zero) THEN One ELSE Zero)

\* (distances * floor_c + (1.0 - distances) * camera_c) % 1 for one entry of
\* distances = self._distances[half_column:] / distance
Projected(table_entry, distance, floor_c, camera_c) ==
    LET d == FDiv(table_entry, distance)
    IN  FMod1(FAdd(FMul(d, floor_c), FMul(FSub(One, d), camera_c)))

\* ys = (tex_ys * ceiling_w).astype(int), lines 216 and 224: the row index
\* of a sample is scaled by the width of the texture.
PlaneRow(tex, tex_y) == FTrunc(FMul(tex_y, I(tex.w)))

\* xs = (tex_xs * ceiling_h).astype(int), lines 217 and 225: the column
\* index of a sample is scaled by the height of the texture.
PlaneCol(tex, tex_x) == FTrunc(FMul(tex_x, I(tex.h)))

\* texture[ys, xs] for one sample; k names the texture.  IndexError gives
\* the zero pixel with k = "IndexError".
PlaneSample(k, tex, tex_y, tex_x) ==
    LET y == NpIndex(PlaneRow(tex, tex_y), tex.h)
        x == NpIndex(PlaneCol(tex, tex_x), tex.w)
    IN  IF y = -1 \/ x = -1 THEN Pixel("IndexError", 0, 0, 0, Zero, FALSE)
        ELSE Pixel(k, 0, y, x, Zero, FALSE)

\* The sample read for row r of the ceiling when the n samples are taken
\* in the order of the floor.
CeilingIndexOfFloor(n, r) == r

\* ys[::-1], xs[::-1], line 218: the sample of row r of the ceiling, of n.
CeilingIndex(n, r) == n - 1 - r

----------------------------------------------------------------------------
(* cast_ray, lines 126-228, for column c after the loop broke on side sd   *)
(* at cell rp holding tex_index: the buffer it leaves and the              *)
(* exception it raises, if any.                                            *)

ShadePath(buf, c, sd, rp, tex_index, shortcut) ==
    LET pos == camera.pos
        angle == rotated_angles[c]
        distance == Distance(rp, pos, steps[c], angle, sd)
        height == 2 * dim[1]
        column_height == ColumnHeight(height, distance)
        half_column == HalfColumn(height, column_height)
        start == StripStart(height, column_height)
        end == StripEnd(height, column_height)
        wall_x == WallX(pos, distance, angle, sd)
        tex_x == TexX(wall_x, TexW, angle, sd)
        drawn_height == end - start
        tex_ys == TexYs(TexH, column_height, drawn_height)
        bad_ys == \E i \in 0..drawn_height - 1 : NpIndex(tex_ys[i], TexH) = -1
        wall == [rc \in DOMAIN buf |->
                    IF rc[2] = c /\ start <= rc[1] /\ rc[1] < end
                    THEN Pixel("wall", tex_index - 1,
                               NpIndex(tex_ys[rc[1] - start], TexH),
                               tex_x, distance, sd = 0)
                    ELSE buf[rc]]
        flat == [rc \in DOMAIN buf |->
                    IF rc[2] = c /\ rc[1] < start THEN CeilingColor
                    ELSE IF rc[2] = c /\ rc[1] >= end THEN FloorColor
                    ELSE wall[rc]]
        floor_y == FloorY(rp, angle, wall_x, sd)
        floor_x == FloorX(rp, angle, wall_x, sd)
        n == dim[1] - half_column
        ty(i) == Projected(distances_table[half_column + i], distance,
                           floor_y, pos[0])
        tx(i) == Projected(distances_table[half_column + i], distance,
                           floor_x, pos[1])
        ceil_px(i) == PlaneSample("ceiling", ceiling, ty(i), tx(i))
        floor_px(i) == PlaneSample("floor", floor, ty(i), tx(i))
        bad_ceil == ceiling # NoTexture
                    /\ \E i \in 0..n - 1 : ceil_px(i).k = "IndexError"
        bad_floor == floor # NoTexture
                     /\ \E i \in 0..n - 1 : floor_px(i).k = "IndexError"
        with_ceil == [rc \in DOMAIN buf |->
                        IF rc[2] = c /\ rc[1] < start
                        THEN (IF ceiling # NoTexture
                              THEN ceil_px(CeilingIndex(n, rc[1]))
                              ELSE CeilingColor)
                        ELSE wall[rc]]
        with_floor == [rc \in DOMAIN buf |->
                        IF rc[2] = c /\ rc[1] >= end
                        THEN (IF floor # NoTexture
                              THEN floor_px(rc[1] - end) ELSE FloorColor)
                        ELSE with_ceil[rc]]
        info == [distance |-> distance, column_height |-> column_height,
                 start |-> start, end |-> end, tex_x |-> tex_x,
                 wall_x |-> wall_x]
    IN  \* int(nan) raises ValueError, tex_h / 0 ZeroDivisionError, and
        \* np.linspace with num < 0 ValueError, before anything is painted.
        IF IsNaN(distance)
        THEN [err |-> "ValueError", colors |-> buf, info |-> info]
        ELSE IF column_height = 0
        THEN [err |-> "ZeroDivisionError", colors |-> buf, info |-> info]
        ELSE IF drawn_height < 0
        THEN [err |-> "ValueError", colors |-> buf, info |-> info]
        ELSE IF bad_ys
        THEN [err |-> "IndexError", colors |-> buf, info |-> info]
        ELSE IF shortcut /\ ceiling = NoTexture /\ floor = NoTexture
        THEN [err |-> "none", colors |-> flat, info |-> info]
        ELSE IF bad_ceil
        THEN [err |-> "IndexError", colors |-> wall, info |-> info]
        ELSE IF bad_floor
        THEN [err |-> "IndexError", colors |-> with_ceil, info |-> info]
        ELSE [err |-> "none", colors |-> with_floor, info |-> info]

\* Lines 194-197 with the two flat colours exchanged.
ShadeExchanged(buf, c, sd, rp, tex_index) ==
    LET res == ShadePath(buf, c, sd, rp, tex_index, TRUE)
    IN  [res EXCEPT !.colors =
            [rc \in DOMAIN buf |->
                IF rc[2] # c THEN res.colors[rc]
                ELSE IF res.colors[rc] = CeilingColor THEN FloorColor
                ELSE IF res.colors[rc] = FloorColor THEN CeilingColor
                ELSE res.colors[rc]]]

\* cast_ray, lines 129-228, as written: the return of line 197 is taken.
Shade(buf, c, sd, rp, tex_index) ==
    ShadePath(buf, c, sd, rp, tex_index, TRUE)

----------------------------------------------------------------------------
(* The inputs of the model.                                                *)

Maps == {RingMap(RingRows, RingCols), PillarMap(PillarSize, PillarSize)}

\* camera.plane: row 0 is the view direction, row 1 the camera plane.
Plane(dy, dx, py, px) ==
    [i \in Axes |-> IF i = 0 THEN Vec(I(dy), I(dx)) ELSE Vec(I(py), I(px))]

Planes == {Plane(1, 0, 0, 1), Plane(-1, 0, 0, -1),
           Plane(0, 1, -1, 0), Plane(0, -1, 1, 0),
           Plane(1, 1, 1, -1)}

\* Coordinates k and k + 1/2 of the cells 0..n - 1.
Coords(n) == {R(j, 2) : j \in 0..2 * n - 1}

CellOf(pos) == Vec(FTrunc(pos[0]), FTrunc(pos[1]))

\* Positions inside the map, in an open cell.
Positions(m) ==
    {pos \in {Vec(y, x) : y \in Coords(m.rows), x \in Coords(m.cols)} :
        m.cells[<<FTrunc(pos[0]), FTrunc(pos[1])>>] = 0}

Cameras(m) == {[pos |-> pos, plane |-> pl] : pos \in Positions(m), pl \in Planes}

\* The cameras a run starts from: at the centre of a cell.
StartCameras(m) ==
    {cam \in Cameras(m) : \A a \in Axes : FMod1(cam.pos[a]) = R(1, 2)}

\* No texture, or a square texture for the ceiling or the floor.
PlaneTextures == {NoTexture, Texture(PlaneSize, PlaneSize)}

Dims == {<<rows, MaxWidth>> : rows \in 1..MaxRows}

Buffer(d) == [rc \in (0..2 * d[1] - 1) \X (0..d[2] - 1) |-> ZeroPixel]

ZeroTable(d) == [c \in 0..d[2] - 1 |-> Vec(Zero, Zero)]

Columns == 0..dim[2] - 1

NoInfo == [distance |-> Zero, column_height |-> 0, start |-> 0, end |-> 0,
           tex_x |-> 0, wall_x |-> Zero]

Pending ==
    [out |-> "pending", cell |-> Vec(0, 0), side |-> 0, hops |-> 0,
     info |-> NoInfo]

NoCasts(d) == [c \in 0..d[2] - 1 |-> Pending]

\* No column has been cast a second time.
NoRecast == [column |-> -1, fresh |-> FALSE, cast |-> Pending]

\* A hit is what lines 129-133 read of the side axis: the wall cell, the
\* camera coordinate, the step and the ray component.
Hit(ray_pos, camera_pos, step, ray_angle) ==
    [ray_pos |-> ray_pos, camera_pos |-> camera_pos, step |-> step,
     ray_angle |-> ray_angle]

StripState(phase, rows, h, out, prev, moves) ==
    [phase |-> phase, rows |-> rows, hit |-> h, out |-> out, prev |-> prev,
     moves |-> moves]

NoOut == [err |-> "none", distance |-> Zero, column_height |-> 0,
          start |-> 0, end |-> 0, tex_ys |-> <<>>]

NoStrip == StripState("none", 0, Hit(0, Zero, 0, Zero), NoOut, NoOut, 0)

\* The animation task of a toggle: the change of state it was created for,
\* whether it is still to finish, and whether it has run to its first
\* await.
Task(change, alive, started) ==
    [change |-> change, alive |-> alive, started |-> started]

\* A FlatToggle: its state, the history of its changes, the position of
\* the animation, its task, whether it is in the gadget tree, and the
\* calls of its callback, each with the change that led to it.
ToggleOf(state) ==
    [state |-> state, changes |-> <<>>,
     progress |-> IF state = "ON" THEN 0 ELSE 5,
     task |-> Task(0, FALSE, FALSE), attached |-> TRUE, calls |-> <<>>]

NoToggle == ToggleOf("none")

----------------------------------------------------------------------------
(* The state after __init__ (which ends with resize).                      *)

Constructed(m, cam, ceil, flr, d) ==
    /\ map = m
    /\ camera = cam
    /\ ceiling = ceil
    /\ floor = flr
    /\ dim = d
    /\ colors = Buffer(d)
    /\ widget_colors = [rc \in (0..d[1] - 1) \X (0..d[2] - 1) |->
                            <<DefaultColor, DefaultColor>>]
    /\ ray_angles = RayAngles(d[2])
    /\ distances_table = Distances(d[1])
    /\ rotated_angles = ZeroTable(d)
    /\ deltas = ZeroTable(d)
    /\ sides = ZeroTable(d)
    /\ steps = [c \in 0..d[2] - 1 |-> Vec(0, 0)]
    /\ pos_int = Vec(0, 0)
    /\ pc = "idle"
    /\ cpc = [c \in 0..d[2] - 1 |-> "done"]
    /\ hops = [c \in 0..d[2] - 1 |-> 0]
    /\ side = [c \in 0..d[2] - 1 |-> 0]
    /\ texture_index = [c \in 0..d[2] - 1 |-> 0]
    /\ casts = NoCasts(d)
    /\ frames = 0
    /\ last = [colors |-> colors, camera |-> camera,
               prev_colors |-> colors, prev_camera |-> camera]
    /\ overlapped = FALSE
    /\ recast = NoRecast

Init ==
    /\ \E m \in Maps : \E cam \in StartCameras(m) :
       \E ceil \in PlaneTextures, flr \in PlaneTextures, d \in Dims :
            Constructed(m, cam, ceil, flr, d)
    /\ strip = NoStrip
    /\ toggle = NoToggle

----------------------------------------------------------------------------
(* render and cast_ray.                                                    *)

\* render, lines 230-272: prime the buffer and fill the per-frame tables.
Render ==
    /\ pc = "idle"
    /\ frames < MaxFrames
    /\ colors' = Primed(colors, dim[1], ceiling, floor)
    /\ rotated_angles' = Rotated(ray_angles, camera.plane)
    /\ deltas' = Deltas(rotated_angles')
    /\ steps' = Steps(rotated_angles')
    /\ sides' = Sides(steps', deltas', camera.pos)
    /\ cpc' = [c \in Columns |-> "ready"]
    /\ casts' = NoCasts(dim)
    /\ pc' = "cast"
    /\ overlapped' = FALSE
    /\ UNCHANGED <<config, camera, widget_colors, pos_int, hops, side, texture_index,
                   frames, last>>

\* for column in range(self.width): column c is cast after the columns
\* before it have returned.
InOrder(c) == \A b \in 0..c - 1 : cpc[b] = "done"

\* The scratch position left where the cast before ended.
StartPosKept(pos, scratch) == scratch

\* ray_pos[:] = camera_pos, into the int16 scratch self._pos_int
StartPos(pos, scratch) == CellOf(pos)

\* cast_ray, lines 100-110.
CastStart(c) ==
    /\ pc = "cast"
    /\ cpc[c] = "ready"
    /\ pos_int' = StartPos(camera.pos, pos_int)
    /\ hops' = [hops EXCEPT ![c] = 0]
    /\ cpc' = [cpc EXCEPT ![c] = "hop"]
    /\ overlapped' = (overlapped \/ \E b \in Columns : cpc[b] \in {"hop", "shade"})
    /\ UNCHANGED <<config, tables, camera, colors, widget_colors, sides, pc,
                   side, texture_index, casts, frames, last>>

\* 0 if sides[0] < sides[1] else 1
NextSide(s) == IF FLt(s[0], s[1]) THEN 0 ELSE 1

\* Lines 117-121, one iteration of the loop of column c from the side
\* distances s and the ray position rp.
HopStep(c, s, rp) ==
    LET sd == NextSide(s)
        moved == [rp EXCEPT ![sd] = @ + steps[c][sd]]
    IN  [side |-> sd,
         sides |-> [s EXCEPT ![sd] = FAdd(@, deltas[c][sd])],
         pos |-> moved,
         read |-> MapRead(map, moved)]

\* cast_ray, lines 116-122: one iteration of the loop.
Hop(c) ==
    /\ pc = "cast"
    /\ cpc[c] = "hop"
    /\ hops[c] < HOPS
    /\ LET h == HopStep(c, sides[c], pos_int)
       IN  /\ side' = [side EXCEPT ![c] = h.side]
           /\ sides' = [sides EXCEPT ![c] = h.sides]
           /\ pos_int' = h.pos
           /\ hops' = [hops EXCEPT ![c] = @ + 1]
           /\ texture_index' = [texture_index EXCEPT ![c] = h.read]
           /\ cpc' = [cpc EXCEPT ![c] =
                        IF h.read = -1 THEN "raised"
                        ELSE IF h.read # 0 THEN "shade"
                        ELSE "hop"]
           /\ pc' = IF h.read = -1 THEN "raised" ELSE pc
           /\ casts' = IF h.read = -1
                       THEN [casts EXCEPT ![c] =
                                [out |-> "MapIndexError", cell |-> h.pos,
                                 side |-> h.side, hops |-> hops[c] + 1,
                                 info |-> NoInfo]]
                       ELSE casts
    /\ UNCHANGED <<config, tables, camera, colors, widget_colors, frames,
                   last, overlapped>>

\* cast_ray, lines 123-124: no walls in range.
NoHit(c) ==
    /\ pc = "cast"
    /\ cpc[c] = "hop"
    /\ hops[c] = HOPS
    /\ casts' = [casts EXCEPT ![c] =
                    [out |-> "miss", cell |-> pos_int, side |-> side[c],
                     hops |-> hops[c], info |-> NoInfo]]
    /\ cpc' = [cpc EXCEPT ![c] = "done"]
    /\ UNCHANGED <<config, tables, camera, colors, widget_colors, sides,
                   pos_int, pc, hops, side, texture_index, frames, last, overlapped>>

\* cast_ray, lines 126-228: shade the column of the hit.
ShadeColumn(c) ==
    /\ pc = "cast"
    /\ cpc[c] = "shade"
    /\ LET res == Shade(colors, c, side[c], pos_int, texture_index[c])
       IN  /\ colors' = res.colors
           /\ casts' = [casts EXCEPT ![c] =
                           [out |-> IF res.err = "none" THEN "hit" ELSE res.err,
                            cell |-> pos_int, side |-> side[c],
                            hops |-> hops[c], info |-> res.info]]
           /\ cpc' = [cpc EXCEPT ![c] =
                        IF res.err = "none" THEN "done" ELSE "raised"]
           /\ pc' = IF res.err = "none" THEN pc ELSE "raised"
    /\ UNCHANGED <<config, tables, camera, widget_colors, sides, pos_int,
                   hops, side, texture_index, frames, last, overlapped>>

\* render, line 277: pack the two sub-rows of each visible row.
RenderEnd ==
    /\ pc = "cast"
    /\ \A c \in Columns : cpc[c] = "done"
    /\ widget_colors' = [rc \in DOMAIN widget_colors |->
                            <<colors[<<2 * rc[1], rc[2]>>],
                              colors[<<2 * rc[1] + 1, rc[2]>>]>>]
    /\ frames' = frames + 1
    /\ last' = [colors |-> colors, camera |-> camera,
                prev_colors |-> last.colors, prev_camera |-> last.camera]
    /\ pc' = "idle"
    /\ UNCHANGED <<config, tables, camera, colors, sides, pos_int, cpc, hops,
                   side, texture_index, casts, overlapped>>

\* The host moves the camera between two frames: half a cell along an axis,
\* or a turn.
MoveCamera ==
    /\ pc = "idle"
    /\ 0 < frames /\ frames < MaxFrames
    /\ camera = last.camera
    /\ \E cam \in Cameras(map) :
        /\ cam # camera
        /\ \/ /\ cam.plane = camera.plane
              /\ \E a \in Axes :
                    /\ cam.pos[1 - a] = camera.pos[1 - a]
                    /\ FAbs(FSub(cam.pos[a], camera.pos[a])) = R(1, 2)
           \/ cam.pos = camera.pos
        /\ camera' = cam
    /\ UNCHANGED <<config, tables, colors, widget_colors, sides, pos_int, pc,
                   cpc, hops, side, texture_index, casts, frames, last, overlapped>>

Next ==
    \/ Render
    \/ \E c \in Columns : InOrder(c) /\ CastStart(c)
    \/ \E c \in Columns : Hop(c)
    \/ \E c \in Columns : NoHit(c)
    \/ \E c \in Columns : ShadeColumn(c)
    \/ RenderEnd
    \/ MoveCamera

Spec == Init /\ [][Next]_vars

----------------------------------------------------------------------------
(* The columns of one frame cast by concurrent workers: cast_ray(c) may    *)
(* start at any time and the iterations of the loops interleave.  The      *)
(* workers share what the renderer object holds, self._pos_int included.   *)

\* Frames of ParWidth columns.
InitPar ==
    /\ \E m \in Maps : \E cam \in StartCameras(m) :
       \E ceil \in PlaneTextures, flr \in PlaneTextures, rows \in 1..MaxRows :
            Constructed(m, cam, ceil, flr, <<rows, ParWidth>>)
    /\ strip = NoStrip
    /\ toggle = NoToggle

NextPar ==
    \/ frames = 0 /\ Render
    \/ \E c \in Columns : CastStart(c)
    \/ \E c \in Columns : Hop(c)
    \/ \E c \in Columns : NoHit(c)
    \/ \E c \in Columns : ShadeColumn(c)
    \/ RenderEnd

SpecPar == InitPar /\ [][NextPar]_vars

\* cast_ray(c) run alone from the tables of the frame: the loop of lines
\* 116-124 from the side distances s, the ray position rp and n hops made,
\* the last on side sd.
RECURSIVE CastLoop(_, _, _, _, _)
CastLoop(c, s, rp, n, sd) ==
    IF n = HOPS
    THEN [out |-> "miss", cell |-> rp, side |-> sd, hops |-> n, read |-> 0]
    ELSE LET h == HopStep(c, s, rp)
         IN  IF h.read = -1
             THEN [out |-> "MapIndexError", cell |-> h.pos, side |-> h.side,
                   hops |-> n + 1, read |-> h.read]
             ELSE IF h.read # 0
             THEN [out |-> "shade", cell |-> h.pos, side |-> h.side,
                   hops |-> n + 1, read |-> h.read]
             ELSE CastLoop(c, h.sides, h.pos, n + 1, h.side)

\* What cast_ray(c) finds, and the buffer it leaves from buf, when no other
\* cast runs during it.
CastAlone(c, buf) ==
    LET found == CastLoop(c, Sides(steps, deltas, camera.pos)[c],
                          CellOf(camera.pos), 0, side[c])
        res == Shade(buf, c, found.side, found.cell, found.read)
    IN  IF found.out = "shade"
        THEN [cast |-> [out |-> IF res.err = "none" THEN "hit" ELSE res.err,
                        cell |-> found.cell, side |-> found.side,
                        hops |-> found.hops, info |-> res.info],
              colors |-> res.colors]
        ELSE [cast |-> [out |-> found.out, cell |-> found.cell,
                        side |-> found.side, hops |-> found.hops,
                        info |-> NoInfo],
              colors |-> buf]

\* The buffer of the first frame cast column after column.
SequentialColors ==
    LET primed == Primed(Buffer(dim), dim[1], ceiling, floor)
    IN  [rc \in DOMAIN colors |-> CastAlone(rc[2], primed).colors[rc]]

----------------------------------------------------------------------------
(* The wall strip alone: cast_ray, lines 129-181, applied to one hit of a  *)
(* ray on the side axis, for buffers of every height.                      *)

\* Cameras in the cells before the wall cell MaxDist (step 1), or after
\* the wall cell 0 (step -1), on half-cell coordinates.
StripHits ==
    {Hit(MaxDist, R(n, 2), 1, I(a)) : n \in 0..2 * MaxDist, a \in {1, 2}}
    \cup {Hit(0, R(n, 2), -1, I(-a)) : n \in 2..2 * MaxDist + 2, a \in {1, 2}}

StripRows == (1..MaxRows) \cup {BigRows}

HitDistance(h) ==
    Distance(Vec(h.ray_pos, 0), Vec(h.camera_pos, Zero), Vec(h.step, 0),
             Vec(h.ray_angle, Zero), 0)

\* Lines 129-181 for a buffer of 2 * rows rows.
StripOf(rows, h) ==
    LET height == 2 * rows
        distance == HitDistance(h)
        column_height == ColumnHeight(height, distance)
        start == StripStart(height, column_height)
        end == StripEnd(height, column_height)
        tex_ys == TexYs(TexH, column_height, end - start)
    IN  [err |-> IF column_height = 0 THEN "ZeroDivisionError"
                 ELSE IF end < start THEN "ValueError"
                 ELSE IF \E i \in DOMAIN tex_ys : NpIndex(tex_ys[i], TexH) = -1
                 THEN "IndexError"
                 ELSE "none",
         distance |-> distance, column_height |-> column_height,
         start |-> start, end |-> end,
         tex_ys |-> IF column_height = 0 THEN <<>>
                    ELSE [i \in 1..end - start |-> tex_ys[i - 1]]]

InitStrip ==
    /\ Constructed(RingMap(RingRows, RingCols),
                   [pos |-> Vec(R(3, 2), R(3, 2)), plane |-> Plane(1, 0, 0, 1)],
                   NoTexture, NoTexture, <<1, 1>>)
    /\ \E rows \in StripRows, h \in StripHits :
            strip = StripState("in", rows, h, NoOut, NoOut, 0)
    /\ toggle = NoToggle

\* The ray of the hit is cast and its strip computed.
StripCast ==
    /\ strip.phase = "in"
    /\ strip' = [strip EXCEPT !.phase = "out",
                              !.out = StripOf(strip.rows, strip.hit)]
    /\ UNCHANGED <<map, camera, ceiling, floor, dim, colors, widget_colors,
                   ray_angles, distances_table, rotated_angles, deltas, steps,
                   sides, pos_int, pc, cpc, hops, side, texture_index, casts,
                   frames, last, overlapped, toggle, recast>>

\* The host moves only the camera, along the ray's side axis.
StripMove ==
    /\ strip.phase = "out"
    /\ strip.moves < MaxMoves
    /\ \E h \in StripHits :
        /\ h.ray_pos = strip.hit.ray_pos
        /\ h.step = strip.hit.step
        /\ h.ray_angle = strip.hit.ray_angle
        /\ h.camera_pos # strip.hit.camera_pos
        /\ strip' = StripState("in", strip.rows, h, NoOut, strip.out,
                               strip.moves + 1)
    /\ UNCHANGED <<map, camera, ceiling, floor, dim, colors, widget_colors,
                   ray_angles, distances_table, rotated_angles, deltas, steps,
                   sides, pos_int, pc, cpc, hops, side, texture_index, casts,
                   frames, last, overlapped, toggle, recast>>

NextStrip == StripCast \/ StripMove

SpecStrip == InitStrip /\ [][NextStrip]_vars

----------------------------------------------------------------------------
(* Claims about the caster.                                                *)

\* casts holds the casts of the frame the camera is in (the host has not
\* moved the camera since).
Current == pc # "idle" \/ camera = last.camera

\* The casts whose loop broke on a wall, so that a distance was computed.
Shaded(c) ==
    Current /\ casts[c].out \in {"hit", "ZeroDivisionError", "IndexError",
                                 "ValueError"}

\* The frame has been rendered to its end.
Rendered == pc = "idle" /\ frames > 0 /\ camera = last.camera

\* The camera looks straight along axis a, in direction s, with a unit
\* direction vector.
Facing(a, s) == camera.plane[0] = [b \in Axes |-> IF b = a THEN I(s) ELSE Zero]

\* The coordinate on axis a of the face of cell that a ray going in
\* direction s enters it through.
Face(cell, a, s) == IF s = 1 THEN cell[a] ELSE cell[a] + 1

\* C1: with the camera looking straight at a flat wall, every column whose
\* ray hits the face of that wall gets the perpendicular distance between
\* the camera and the face, whatever the column.
C1_FlatWallDistance ==
    \A a \in Axes, s \in {-1, 1} :
        Facing(a, s) =>
            \A c \in Columns :
                (Shaded(c) /\ casts[c].side = a) =>
                    /\ casts[c].info.distance =
                         FAbs(FSub(I(Face(casts[c].cell, a, s)), camera.pos[a]))
                    /\ \A b \in Columns :
                         (Shaded(b) /\ casts[b].side = a
                            /\ casts[b].cell[a] = casts[c].cell[a]) =>
                              casts[b].info.distance = casts[c].info.distance

\* C1 witness: two columns hit the faced wall at a non-zero distance.
C1_Witness ==
    \E a \in Axes, s \in {-1, 1} :
        /\ Facing(a, s)
        /\ \E b, c \in Columns :
            /\ b # c
            /\ Shaded(b) /\ casts[b].side = a
            /\ Shaded(c) /\ casts[c].side = a
            /\ casts[b].cell # casts[c].cell
            /\ casts[c].info.distance # Zero

\* C2: every map cell a ray reads lies inside the grid.
C2_ReadsInGrid ==
    \A c \in Columns :
        (pc # "idle" /\ cpc[c] \in {"hop", "shade", "raised"} /\ hops[c] > 0) =>
            InGrid(map, pos_int)

\* C3: after a frame, a column whose ray found no wall holds no wall pixel.
C3_MissColumnCeilingFloor ==
    Rendered =>
        \A rc \in DOMAIN colors :
            casts[rc[2]].out = "miss" => colors[rc].k # "wall"


\* The k-th cell from cell along axis o in direction s.
Ahead(cell, o, s, k) == [cell EXCEPT ![o] = @ + k * s]

\* The number of hops to the first wall cell on the line from cell along
\* axis o in direction s, when the line reaches one inside the grid and
\* within the hop budget.
WallAhead(cell, o, s) ==
    {k \in 1..HOPS :
        /\ \A j \in 1..k : InGrid(map, Ahead(cell, o, s, j))
        /\ MapRead(map, Ahead(cell, o, s, k)) # 0
        /\ \A j \in 1..k - 1 : MapRead(map, Ahead(cell, o, s, j)) = 0}

\* C4: a ray with a zero component on axis z advances along the other axis
\* only, one cell per hop, and hits the first wall cell on that line.
C4_ZeroComponentRay ==
    \A c \in Columns, z \in Axes :
        LET o == 1 - z
            cell == CellOf(camera.pos)
            s == steps[c][o]
        IN  (/\ pc # "idle"
             /\ rotated_angles[c][z] = Zero
             /\ rotated_angles[c][o] # Zero
             /\ WallAhead(cell, o, s) # {}) =>
                /\ cpc[c] \in {"hop", "shade"} =>
                        pos_int = Ahead(cell, o, s, hops[c])
                /\ cpc[c] = "done" =>
                        /\ casts[c].out # "miss"
                        /\ casts[c].hops \in WallAhead(cell, o, s)
                        /\ casts[c].cell = Ahead(cell, o, s, casts[c].hops)

\* The column whose ray is the direction vector.
IsCentre(c) == Current /\ casts[c].out # "pending"
               /\ rotated_angles[c] = camera.plane[0]

\* C5: at the centre of a cell and facing an adjacent wall cell, the centre
\* column hits the wall and its strip covers every row of the buffer.
C5_AdjacentWallFullHeight ==
    \A a \in Axes, s \in {-1, 1}, c \in Columns :
        (/\ Facing(a, s)
         /\ \A b \in Axes : FMod1(camera.pos[b]) = R(1, 2)
         /\ MapRead(map, Ahead(CellOf(camera.pos), a, s, 1)) > 0
         /\ IsCentre(c)) =>
            /\ casts[c].out = "hit"
            /\ casts[c].info.start = 0
            /\ casts[c].info.end = 2 * dim[1]

\* The border cells of the map are walls and the others are open.
IsRing(m) ==
    \A rc \in DOMAIN m.cells :
        (m.cells[rc] # 0) <=>
            (rc[1] \in {0, m.rows - 1} \/ rc[2] \in {0, m.cols - 1})

\* C6: inside a ring of walls no farther than HOPS cells, no column ends
\* without a hit.
C6_RingAlwaysHit ==
    (IsRing(map) /\ map.rows + map.cols <= HOPS) =>
        \A c \in Columns : casts[c].out # "miss"

\* C7: a second render of the same map, camera and textures leaves the
\* colour buffer as the first left it.
C7_RenderIdempotent ==
    (pc = "idle" /\ frames >= 2 /\ last.camera = last.prev_camera) =>
        last.colors = last.prev_colors

\* C7 witness: the same camera rendered twice, with a wall strip, an
\* unpainted column and a ceiling texture.
C7_Witness ==
    /\ pc = "idle" /\ frames >= 2 /\ last.camera = last.prev_camera
    /\ ceiling # NoTexture
    /\ \E c \in Columns : casts[c].out = "miss"
    /\ \E rc \in DOMAIN colors : colors[rc].k = "wall"
    /\ \E rc \in DOMAIN colors : colors[rc].k = "ceiling"


----------------------------------------------------------------------------
(* Claims about the wall strip.                                            *)

\* C9: at hit distance 0 the column height is the sentinel and the strip
\* covers every row of the buffer, with every texture row inside the
\* texture.
C9_ZeroDistanceCoversBuffer ==
    (strip.phase = "out" /\ strip.out.distance = Zero) =>
        /\ strip.out.column_height = Sentinel
        /\ strip.out.err = "none"
        /\ strip.out.start = 0
        /\ strip.out.end = 2 * strip.rows
        /\ \A i \in DOMAIN strip.out.tex_ys :
                0 <= strip.out.tex_ys[i] /\ strip.out.tex_ys[i] < TexH

\* The camera has moved away from the wall and the ray was cast again.
MovedAway ==
    /\ strip.phase = "out"
    /\ strip.moves > 0
    /\ FLt(strip.prev.distance, strip.out.distance)

\* C10: moving the camera farther from the wall strictly decreases the
\* column height.
C10_StrictlyDecreasing ==
    MovedAway => strip.prev.column_height > strip.out.column_height

\* C10, amended: from a distance above 0, moving the camera farther from
\* the wall never increases the column height.
C10_NeverIncreasing ==
    (MovedAway /\ strip.prev.distance # Zero) =>
        strip.prev.column_height >= strip.out.column_height

\* C10 witness: the camera moved away and the column height went down.
C10_Witness ==
    /\ MovedAway
    /\ strip.prev.distance # Zero
    /\ strip.prev.column_height > strip.out.column_height
    /\ strip.out.column_height > 0


----------------------------------------------------------------------------
(* Claims about casting the columns concurrently.                          *)

SameAsSequential ==
    /\ \A c \in Columns :
        (pc # "idle" /\ cpc[c] \in {"done", "raised"}) =>
            casts[c] = CastAlone(c, colors).cast
    /\ (pc = "idle" /\ frames = 1) => colors = SequentialColors

\* C8: however the casts of the columns of a frame interleave, each column
\* finds the hit, and the frame ends with the buffer, of the sequential
\* render.
C8_ConcurrentColumns == SameAsSequential

\* C8, amended: in whatever order the columns of a frame are cast, as long
\* as no two casts overlap, each column finds the hit, and the frame ends
\* with the buffer, of the sequential render.
C8_AnyOrderColumns == ~overlapped => SameAsSequential

\* C8 witness: a column was cast, and hit a wall, before a column of lower
\* index was started, and no two casts overlapped.
C8_Witness ==
    /\ ~overlapped
    /\ \E b, c \in Columns :
        /\ b < c
        /\ cpc[b] = "ready"
        /\ cpc[c] = "done"
        /\ casts[c].out = "hit"

----------------------------------------------------------------------------
(* resize.  RayCaster.resize begins with Widget.resize                     *)
(* (src/nurses_2/widgets/widget.py, lines 46-67), which replaces canvas    *)
(* and colors and then reads the name default_color, bound neither in the  *)
(* function nor in the module: line 61 raises NameError, and lines 77-94   *)
(* of RayCaster.resize are not reached.                                    *)

ResizeDims == {<<rows, width>> : rows \in 1..MaxRows, width \in 1..MaxWidth}

\* Widget.resize, lines 50-60: self.canvas and self.colors of the new size.
WidgetResized(d) ==
    [rc \in (0..d[1] - 1) \X (0..d[2] - 1) |-> <<ZeroPixel, ZeroPixel>>]

\* The shape of a buffer: rows and columns.
Shape(buf) ==
    <<Cardinality({rc[1] : rc \in DOMAIN buf}),
      Cardinality({rc[2] : rc \in DOMAIN buf})>>

\* The host resizes the renderer between two frames.
Resize ==
    /\ pc = "idle"
    /\ \E d \in ResizeDims :
        /\ dim' = d
        /\ widget_colors' = WidgetResized(d)
    /\ pc' = "raised"
    /\ UNCHANGED <<map, ceiling, floor, ray_angles, distances_table, strip,
                   toggle, recast, tables, camera, colors, sides, pos_int,
                   cpc, hops, side, texture_index, casts, frames, last,
                   overlapped>>

NextResize ==
    \/ Render
    \/ \E c \in Columns : InOrder(c) /\ CastStart(c)
    \/ \E c \in Columns : Hop(c)
    \/ \E c \in Columns : NoHit(c)
    \/ \E c \in Columns : ShadeColumn(c)
    \/ RenderEnd
    \/ Resize

SpecResize == Init /\ [][NextResize]_vars

----------------------------------------------------------------------------
(* Claims about the texture column of a hit.                               *)

\* Columns b and c hit walls of the same side at the same wall_x, with ray
\* components of opposite signs on that side; c is the one that the sign
\* correction leaves alone.
OppositeHits(b, c) ==
    /\ Current
    /\ casts[b].out = "hit" /\ casts[c].out = "hit"
    /\ casts[b].side = casts[c].side
    /\ casts[b].info.wall_x = casts[c].info.wall_x
    /\ FSign(rotated_angles[b][casts[b].side])
            = -FSign(rotated_angles[c][casts[c].side])
    /\ FSign(rotated_angles[c][casts[c].side])
            = (IF casts[c].side = 1 THEN -1 ELSE 1)

\* C11: two rays that hit walls of the same side at the same wall_x from
\* opposite directions read mirrored texture columns, int(wall_x * tex_w)
\* and tex_w - 1 - int(wall_x * tex_w), both inside the texture.
C11_MirroredTextureColumns ==
    \A b, c \in Columns :
        OppositeHits(b, c) =>
            /\ casts[c].info.tex_x = FTrunc(FMul(casts[c].info.wall_x, I(TexW)))
            /\ casts[b].info.tex_x = TexW - 1 - casts[c].info.tex_x
            /\ casts[b].info.tex_x \in 0..TexW - 1
            /\ casts[c].info.tex_x \in 0..TexW - 1

\* C11 witness: two such columns, away from the middle of the texture.
C11_Witness ==
    \E b, c \in Columns :
        /\ OppositeHits(b, c)
        /\ casts[b].info.tex_x # casts[c].info.tex_x

----------------------------------------------------------------------------
(* Claims about the flat colours of a hit column.                          *)

\* Column c was hit and painted in the current frame, with neither a
\* ceiling nor a floor texture.
FlatHit(c) ==
    /\ Current
    /\ ceiling = NoTexture /\ floor = NoTexture
    /\ pc # "raised" /\ cpc[c] = "done" /\ casts[c].out = "hit"

\* C13: without ceiling and floor textures, the column the return of line
\* 197 leaves is the column lines 199-228 would paint: the ceiling colour
\* above the strip, the floor colour below it, the same wall strip.
C13_ShortcutSameAsGeneral ==
    \A c \in Columns :
        FlatHit(c) =>
            /\ ShadePath(colors, c, casts[c].side, casts[c].cell,
                         texture_index[c], FALSE)
                    = [err |-> "none", colors |-> colors, info |-> casts[c].info]
            /\ \A rc \in DOMAIN colors :
                    rc[2] = c =>
                        colors[rc].k =
                            IF rc[1] < casts[c].info.start THEN "ceiling_color"
                            ELSE IF rc[1] >= casts[c].info.end THEN "floor_color"
                            ELSE "wall"

\* C13 witness: such a column with rows above and below its wall strip.
C13_Witness ==
    \E c \in Columns :
        /\ FlatHit(c)
        /\ 0 < casts[c].info.start
        /\ casts[c].info.start < casts[c].info.end

----------------------------------------------------------------------------
(* FlatToggle (src/batgrl/gadgets/flat_toggle.py): the toggle, its         *)
(* animation task and its callback.  A change of toggle_state calls        *)
(* on_toggle; the task runs between two awaits at a time, and a cancelled  *)
(* task is never resumed past the await it is suspended at.                *)

\* Everything of the renderer, which the toggle leaves alone.
raycaster == <<map, camera, ceiling, floor, dim, colors, widget_colors,
               ray_angles, distances_table, rotated_angles, deltas, steps,
               sides, pos_int, pc, cpc, hops, side, texture_index, casts,
               frames, last, overlapped, strip, recast>>

InitToggle ==
    /\ Constructed(RingMap(RingRows, RingCols),
                   [pos |-> Vec(R(3, 2), R(3, 2)), plane |-> Plane(1, 0, 0, 1)],
                   NoTexture, NoTexture, <<1, 1>>)
    /\ strip = NoStrip
    /\ \E state \in {"ON", "OFF"} : toggle = ToggleOf(state)

\* self.parent.callback(self.toggle_state), line 80, ends the task.
Called(t) ==
    [t EXCEPT !.calls = Append(@, [change |-> t.task.change, state |-> t.state]),
              !.task.alive = FALSE]

\* The positions left to the animation, lines 66-73: the next one, or -1.
NextProgress(t) ==
    IF t.state = "ON"
    THEN (IF t.progress - 1 >= 0 THEN t.progress - 1 ELSE -1)
    ELSE (IF t.progress + 1 < 6 THEN t.progress + 1 ELSE -1)

\* One run of _animate_toggle between two awaits, lines 75-80.
Animated(t) ==
    IF NextProgress(t) = -1 THEN Called(t)
    ELSE [t EXCEPT !.progress = NextProgress(t), !.task.started = TRUE]

\* toggle_state changes and on_toggle, lines 82-87, cancels the task and
\* creates one for the new state.
OnToggle ==
    /\ toggle.attached
    /\ Len(toggle.changes) < MaxToggles
    /\ LET state == IF toggle.state = "ON" THEN "OFF" ELSE "ON"
       IN  toggle' = [toggle EXCEPT
                        !.state = state,
                        !.changes = Append(@, state),
                        !.task = Task(Len(toggle.changes) + 1, TRUE, FALSE)]
    /\ UNCHANGED raycaster

\* The event loop starts the task: lines 66-78, up to the first await.
AnimateStart ==
    /\ toggle.task.alive /\ ~toggle.task.started
    /\ toggle' = Animated(toggle)
    /\ UNCHANGED raycaster

\* The event loop resumes the task after asyncio.sleep(0.05).
AnimateStep ==
    /\ toggle.task.alive /\ toggle.task.started
    /\ toggle' = Animated(toggle)
    /\ UNCHANGED raycaster

\* The toggle is removed from the gadget tree: on_remove, lines 62-63.
OnRemove ==
    /\ toggle.attached
    /\ toggle' = [toggle EXCEPT !.attached = FALSE, !.task.alive = FALSE]
    /\ UNCHANGED raycaster

NextToggle == OnToggle \/ AnimateStart \/ AnimateStep \/ OnRemove

SpecToggle == InitToggle /\ [][NextToggle]_vars

\* C14: once no animation is left to run, every change of the toggle state
\* has been followed by a call of the callback with the state it set.
C14_EveryChangeCalledBack ==
    ~toggle.task.alive =>
        \A k \in 1..Len(toggle.changes) :
            \E i \in 1..Len(toggle.calls) :
                toggle.calls[i] = [change |-> k, state |-> toggle.changes[k]]

----------------------------------------------------------------------------
(* Claims about the loop of cast_ray.                                      *)

\* Column c runs one iteration of the loop.
HopTaken(c) == pc = "cast" /\ cpc[c] = "hop" /\ hops'[c] = hops[c] + 1

\* The iteration moves the ray one cell along the axis it chose, whose
\* side distance was not the larger one, and reads another cell than the
\* camera's.
OneCell(c) ==
    LET a == side'[c]
    IN  /\ pos_int'[a] - pos_int[a] \in {-1, 1}
        /\ pos_int'[1 - a] = pos_int[1 - a]
        /\ ~FLt(sides[c][1 - a], sides[c][a])
        /\ pos_int' # CellOf(camera.pos)

\* C15: a cast makes at most HOPS hops and goes on only from cells that
\* hold 0; every hop moves the ray by one cell along one axis, the axis
\* with the smaller side distance, so the camera's cell is never read.
C15_OneCellPerHop ==
    /\ [](\A c \in Columns :
            /\ hops[c] <= HOPS
            /\ (pc = "cast" /\ cpc[c] = "hop" /\ hops[c] > 0) =>
                    MapRead(map, pos_int) = 0
            /\ (pc = "cast" /\ cpc[c] = "shade") => MapRead(map, pos_int) > 0)
    /\ [][\A c \in Columns : HopTaken(c) => OneCell(c)]_vars

----------------------------------------------------------------------------
(* Claims about the extent of the wall strip.                              *)

\* C16: the strip of a hit lies inside the buffer, centred on its middle,
\* and is not higher than column_height, which is the integer part of
\* height / distance (at distance 0, where the quotient has no value, the
\* code's 1000).
C16_StripInsideBuffer ==
    strip.phase = "out" =>
        LET out == strip.out
            height == 2 * strip.rows
        IN  /\ 0 <= out.start /\ out.start <= out.end /\ out.end <= height
            /\ out.start + out.end = height
            /\ out.end - out.start <= out.column_height
            /\ out.distance # Zero =>
                  /\ ~FLt(I(height), FMul(I(out.column_height), out.distance))
                  /\ FLt(I(height), FMul(I(out.column_height + 1), out.distance))

\* C16 witness: a strip with rows above and below it, of an odd column
\* height.
C16_Witness ==
    /\ strip.phase = "out"
    /\ 0 < strip.out.start /\ strip.out.start < strip.out.end
    /\ strip.out.end - strip.out.start < strip.out.column_height

----------------------------------------------------------------------------
(* Claims about the texture rows of the wall strip.                        *)

\* A strip whose texture rows were computed.
Sampled == strip.phase = "out" /\ strip.out.err = "none"

\* The range of the texture sampled for the strip computed.
SampledStart ==
    TextureStart(TexH, strip.out.column_height, strip.out.end - strip.out.start)

SampledEnd ==
    TextureEnd(TexH, strip.out.column_height, strip.out.end - strip.out.start)

\* The rows sampled are those of [texture_start, texture_end), from the
\* first on, inside the texture, and the range is centred in the texture.
RowsOfRange ==
    /\ \A i \in DOMAIN strip.out.tex_ys :
            /\ 0 <= strip.out.tex_ys[i] /\ strip.out.tex_ys[i] < TexH
            /\ FFloor(SampledStart) <= strip.out.tex_ys[i]
            /\ FLt(I(strip.out.tex_ys[i]), SampledEnd)
    /\ strip.out.tex_ys # <<>> => strip.out.tex_ys[1] = FFloor(SampledStart)
    /\ FAdd(SampledStart, SampledEnd) = I(TexH)

\* C17: the rows sampled lie in the texture and in the range
\* [texture_start, texture_end), which is centred in the texture; the
\* range is the whole texture when column_height is at most the height of
\* the buffer, and a proper middle part when it is more.
C17_MiddleSlice ==
    Sampled =>
        /\ RowsOfRange
        /\ IF strip.out.column_height <= 2 * strip.rows
           THEN SampledStart = Zero /\ SampledEnd = I(TexH)
           ELSE FLt(Zero, SampledStart) /\ FLt(SampledEnd, I(TexH))

\* C17, amended: the range is the whole texture when the strip drawn has
\* column_height rows, and a proper middle part when it has fewer
\* (column_height odd, or more than the height of the buffer).
C17_MiddleSliceOfDrawn ==
    Sampled =>
        /\ RowsOfRange
        /\ IF strip.out.end - strip.out.start = strip.out.column_height
           THEN SampledStart = Zero /\ SampledEnd = I(TexH)
           ELSE FLt(Zero, SampledStart) /\ FLt(SampledEnd, I(TexH))

\* C17 witness: a strip of an odd column_height that fits in the buffer,
\* whose rows are sampled from a range that starts below the top of the
\* texture.
C17_Witness ==
    /\ Sampled
    /\ strip.out.column_height < 2 * strip.rows
    /\ strip.out.end - strip.out.start < strip.out.column_height
    /\ strip.out.tex_ys # <<>>
    /\ FLt(Zero, SampledStart)

----------------------------------------------------------------------------
(* The renderer in a corridor along axis 1, under a textured ceiling and   *)
(* over a textured floor, with a buffer high enough for several rows of    *)
(* each: the frames of Next, from another construction.                    *)

InitPlane ==
    /\ \E cam \in StartCameras(RingMap(3, CorridorCols)) :
            Constructed(RingMap(3, CorridorCols), cam,
                        Texture(PlaneSize, PlaneSize),
                        Texture(PlaneSize, PlaneSize), <<PlaneRows, MaxWidth>>)
    /\ strip = NoStrip
    /\ toggle = NoToggle

SpecPlane == InitPlane /\ [][Next]_vars

----------------------------------------------------------------------------
(* Claims about the ceiling and the floor of a hit column.                 *)

\* Column c was hit and painted to the end in the current frame, under a
\* ceiling and over a floor textured with the same shape.
TexturedHit(c) ==
    /\ Current
    /\ ceiling # NoTexture /\ floor = ceiling
    /\ pc # "raised" /\ cpc[c] = "done" /\ casts[c].out = "hit"

\* C18: row r of the ceiling and row height - 1 - r of the floor are read
\* at the same coordinate, and there are as many samples as rows above the
\* strip and as rows below it.
C18_CeilingMirrorsFloor ==
    \A c \in Columns :
        TexturedHit(c) =>
            LET height == 2 * dim[1]
                info == casts[c].info
                samples == Cardinality(DOMAIN distances_table)
                            - HalfColumn(height, info.column_height)
            IN  /\ samples = info.start
                /\ samples = height - info.end
                /\ \A r \in 0..info.start - 1 :
                    LET up == colors[<<r, c>>]
                        down == colors[<<height - 1 - r, c>>]
                    IN  /\ up.k = "ceiling" /\ down.k = "floor"
                        /\ up.y = down.y /\ up.x = down.x

\* C18 witness: such a column with two rows of ceiling read at different
\* coordinates.
C18_Witness ==
    \E c \in Columns :
        /\ TexturedHit(c)
        /\ casts[c].info.start >= 2
        /\ <<colors[<<0, c>>].y, colors[<<0, c>>].x>>
                # <<colors[<<1, c>>].y, colors[<<1, c>>].x>>


----------------------------------------------------------------------------
(* A column cast a second time.  cast_ray takes sides = self._sides[column] *)
(* (line 110), a view of the table, and advances it in place (line 118);    *)
(* only render computes the table again (lines 267-271).  ray_pos, the      *)
(* scratch self._pos_int, is set from the camera by every cast (line 105).  *)

\* The side distances of column c left as the cast before advanced them.
SidesOfKept(c) == sides[c]

\* self._sides[column] as lines 267-271 compute it of the frame's tables.
SidesOf(c) == Sides(steps, deltas, camera.pos)[c]

\* cast_ray(c) is called again after the frame's cast of c returned, lines
\* 100-110 of the second call; fresh: lines 267-271 ran again before it.
Recast(c, fresh) ==
    /\ pc = "cast"
    /\ recast = NoRecast
    /\ \A b \in Columns : cpc[b] \in {"ready", "done"}
    /\ cpc[c] = "done"
    /\ recast' = [column |-> c, fresh |-> fresh, cast |-> casts[c]]
    /\ sides' = IF fresh THEN [sides EXCEPT ![c] = SidesOf(c)] ELSE sides
    /\ pos_int' = StartPos(camera.pos, pos_int)
    /\ hops' = [hops EXCEPT ![c] = 0]
    /\ cpc' = [cpc EXCEPT ![c] = "hop"]
    /\ UNCHANGED <<map, ceiling, floor, dim, ray_angles, distances_table,
                   strip, toggle, tables, camera, colors, widget_colors, pc,
                   side, texture_index, casts, frames, last, overlapped>>

NextRecast ==
    \/ frames = 0 /\ Render
    \/ \E c \in Columns : InOrder(c) /\ CastStart(c)
    \/ \E c \in Columns : Hop(c)
    \/ \E c \in Columns : NoHit(c)
    \/ \E c \in Columns : ShadeColumn(c)
    \/ RenderEnd
    \/ \E c \in Columns : Recast(c, FALSE)
    \/ \E c \in Columns : Recast(c, TRUE)

SpecRecast == Init /\ [][NextRecast]_vars

\* The second cast of column c has returned or raised.
Recasted(c) == recast.column = c /\ cpc[c] \in {"done", "raised"}

\* Two casts found the same cell, side and distance.
SameCast(a, b) ==
    /\ a.out = b.out
    /\ a.cell = b.cell
    /\ a.side = b.side
    /\ a.info.distance = b.info.distance

\* C19 as stated: once the per-column tables have been computed, a second
\* cast of the same column finds the same cell, side and distance as the
\* first.
C19_SecondCastSame ==
    \A c \in Columns : Recasted(c) => SameCast(casts[c], recast.cast)

\* C19, amended: a second cast of the same column finds the same cell, side
\* and distance as the first when the side distances of lines 267-271 have
\* been computed again before it.
C19_SecondCastSameAfterTables ==
    \A c \in Columns :
        Recasted(c) /\ recast.fresh => SameCast(casts[c], recast.cast)

\* A wall of the grid found twice, three hops away or further, the side
\* distances computed again in between.
C19_Witness ==
    \E c \in Columns :
        /\ Recasted(c)
        /\ recast.fresh
        /\ casts[c].out = "hit"
        /\ casts[c].hops >= 3
        /\ \A a \in Axes : casts[c].cell[a] >= 0
        /\ SameCast(casts[c], recast.cast)


----------------------------------------------------------------------------
(* Hits further away than the buffer is high.                              *)

\* C20: every hit, one with column_height = 0 included, is shaded without
\* an error being raised, and the wall strip of a hit with column_height = 0
\* is empty.
C20_FarHitCompletes ==
    strip.phase = "out" =>
        /\ strip.out.err = "none"
        /\ strip.out.column_height = 0 => strip.out.start = strip.out.end


----------------------------------------------------------------------------
(* The renderer in the corridor under a ceiling and over a floor of any    *)
(* shape of at most MaxSide rows and columns.                              *)

ShapeTextures == {Texture(h, w) : h \in 1..MaxSide, w \in 1..MaxSide}

InitShape ==
    /\ \E cam \in StartCameras(RingMap(3, CorridorCols)) :
       \E ceil \in ShapeTextures, flr \in ShapeTextures :
            Constructed(RingMap(3, CorridorCols), cam, ceil, flr,
                        <<PlaneRows, MaxWidth>>)
    /\ strip = NoStrip
    /\ toggle = NoToggle

SpecShape == InitShape /\ [][Next]_vars

\* The cast of column c of the current frame came to lines 208-212: the
\* wall strip was painted and one of the two planes has a texture.
PlanesSampled(c) ==
    /\ Current
    /\ casts[c].out \in {"hit", "IndexError"}
    /\ ceiling # NoTexture \/ floor # NoTexture
    /\ LET info == casts[c].info
           tex_ys == TexYs(TexH, info.column_height, info.end - info.start)
       IN  \A i \in 0..info.end - info.start - 1 :
                NpIndex(tex_ys[i], TexH) # -1

\* tex_ys and tex_xs of lines 211-212 for the cast of column c, as pairs.
PlaneCoords(c) ==
    LET info == casts[c].info
        half_column == HalfColumn(2 * dim[1], info.column_height)
        floor_y == FloorY(casts[c].cell, rotated_angles[c], info.wall_x,
                          casts[c].side)
        floor_x == FloorX(casts[c].cell, rotated_angles[c], info.wall_x,
                          casts[c].side)
    IN  {<<Projected(distances_table[half_column + i], info.distance,
                     floor_y, camera.pos[0]),
           Projected(distances_table[half_column + i], info.distance,
                     floor_x, camera.pos[1])>> :
            i \in 0..dim[1] - half_column - 1}

\* The indices of the samples at the coordinates S are inside tex.
Inside(tex, S) ==
    \A s \in S :
        /\ 0 <= PlaneRow(tex, s[1]) /\ PlaneRow(tex, s[1]) < tex.h
        /\ 0 <= PlaneCol(tex, s[2]) /\ PlaneCol(tex, s[2]) < tex.w

\* C21: every sample of the ceiling and of the floor has its row index in
\* [0, texture height) and its column index in [0, texture width), whatever
\* the shape of the texture; the floor is sampled after the ceiling was.
C21_PlaneIndicesInside ==
    \A c \in Columns :
        PlanesSampled(c) =>
            /\ ceiling # NoTexture => Inside(ceiling, PlaneCoords(c))
            /\ (floor # NoTexture
                /\ (ceiling # NoTexture => Inside(ceiling, PlaneCoords(c))))
                    => Inside(floor, PlaneCoords(c))

====
